---------------------------- MODULE Spec2Model ----------------------------
(***************************************************************************)
(* Range-bar / CVD aggregation of src/app.py: the session state (bars,     *)
(* current_bar, last_trade_id), process_tick and init_new_bar, the         *)
(* deduplication and cursor update of fetch_data, the polling loop of      *)
(* main_loop and the sidebar controls (range input, reset button).         *)
(*                                                                         *)
(* Prices and the close threshold are counted in units of TICK_VALUE       *)
(* (0.01), amounts in whole units: the float arithmetic of the program is  *)
(* modelled by exact integer arithmetic.  Trade ids are modelled by        *)
(* positive integers compared with >, as the program compares them.        *)
(***************************************************************************)
EXTENDS Integers, Sequences, FiniteSets, TLC

(***************************************************************************)
(* Bounds of the model.                                                    *)
(***************************************************************************)
MaxId == 3
MaxBatch == 2
MaxHistId == 310
MaxDedupId == 4
MaxDedupLen == 3

(***************************************************************************)
(* Program constants.                                                      *)
(***************************************************************************)
RANGE_SIZE_TICKS == 15
TICK_VALUE == 1
MAXLEN_INITIAL == 200
MAXLEN_RESET == 100

(***************************************************************************)
(* Python's None and optional values: None is the empty tuple, a present   *)
(* value v is the one-element tuple <<v>>.                                 *)
(***************************************************************************)
None == <<>>
Some(v) == <<v>>
Val(o) == o[1]

Max(a, b) == IF a >= b THEN a ELSE b
Min(a, b) == IF a <= b THEN a ELSE b

VARIABLES
    bars,           \* st.session_state.bars: the deque of finalized bars
    bars_maxlen,    \* the maxlen of that deque
    current_bar,    \* st.session_state.current_bar: None or the open bar
    aliased,        \* the last entry of bars and current_bar are one and the
                    \* same dict
    last_trade_id,  \* st.session_state.last_trade_id: None or an id
    range_input,    \* the value of the "Range Size (Ticks)" number input
    pc,             \* position of main_loop: "fetch" (awaiting fetch_trades),
                    \* "loop" (in the for loop), "render" (awaiting
                    \* exchange.close(), the rendering ahead), "sleep"
                    \* (awaiting asyncio.sleep)
    trades,         \* the ids of fetch_data's trades: the ids of what
                    \* fetch_trades returned
    new_trades,     \* fetch_data's new_trades of the current cycle
    idx,            \* number of trades of new_trades the for loop has taken
    range_h,        \* fetch_data's range_h (0 while not assigned)
    error_shown,    \* st.error was called in the current cycle
    chart,          \* what chart_placeholder shows: None or a sequence of bars
    status_line,    \* what status_placeholder shows
    \* History variables: they record what the program did and are read by
    \* no action's guard.
    closed_log,     \* one entry per bar appended since the history was last
                    \* empty, never evicted: the bar appended, the trades
                    \* whose update was applied to it, the id of the trade
                    \* init_new_bar created it from
    open_log,       \* the same record of the open bar
    was_reset,      \* the reset button has been pressed
    reset_cursor,   \* last_trade_id at the most recent reset
    max_consumed,   \* highest id in any new_trades so far, None if none
    last_step,      \* the step taken last
    ever_ok,        \* a process_tick call has returned normally
    ok_since_empty, \* ... since the start or the most recent reset
    dd_trades,      \* dedup harness: the batch both passes run on
    dd_in,          \* dedup harness: last_trade_id before each pass
    dd_out          \* dedup harness: new_trades of each pass

prog_vars == <<bars, bars_maxlen, current_bar, aliased, last_trade_id, range_input, pc,
               trades, new_trades, idx, range_h, error_shown, chart, status_line>>
hist_vars == <<closed_log, open_log, was_reset, reset_cursor, max_consumed,
               last_step, ever_ok, ok_since_empty>>
dd_vars == <<dd_trades, dd_in, dd_out>>
vars == <<prog_vars, hist_vars, dd_vars>>

(***************************************************************************)
(* Trades.                                                                 *)
(***************************************************************************)
Ids == 1..MaxId
Prices == {0, 8, 15}
RangeInputs == {8, RANGE_SIZE_TICKS}

TimestampOf(id) == 1000 * id + 500

\* A trade as the exchange client returns it.
WellFormedTrades(id) ==
    { [id |-> id, price |-> p, amount |-> as[1], side |-> as[2],
       timestamp |-> Some(TimestampOf(id))] :
        p \in Prices, as \in {<<1, "buy">>, <<2, "sell">>} }

\* Records process_tick cannot take: a key is missing, or the timestamp is
\* None.
MalformedTrades(id) ==
    { [id |-> id, price |-> 8, amount |-> 1, timestamp |-> Some(TimestampOf(id))] }
    \cup { [id |-> id, price |-> p, amount |-> 1, side |-> "buy", timestamp |-> None] :
            p \in {0, 15} }

TradesOf(id) == WellFormedTrades(id) \cup MalformedTrades(id)

\* The batches with strictly ascending ids, at most n long, of trades with
\* ids from lo on; only well-formed trades when wf.
RECURSIVE AscendingFrom(_, _, _)
AscendingFrom(lo, n, wf) ==
    IF n = 0 THEN {<<>>}
    ELSE {<<>>} \cup
         UNION { { <<t>> \o rest :
                     t \in (IF wf THEN WellFormedTrades(id) ELSE TradesOf(id)),
                     rest \in AscendingFrom(id + 1, n - 1, wf) } :
                 id \in lo..MaxId }

AscendingBatches == AscendingFrom(1, MaxBatch, FALSE)
WellFormedBatches == AscendingFrom(1, MaxBatch, TRUE)

(***************************************************************************)
(* process_tick and init_new_bar.                                          *)
(***************************************************************************)
\* float(x) of a number the client already delivers as a float
ToFloat(x) == x

\* datetime.fromtimestamp(timestamp / 1000): seconds and microseconds
FromTimestamp(ms) == [sec |-> ms \div 1000, usec |-> (ms % 1000) * 1000]

\* an append that refuses the new bar when the deque is full
DequeAppendKeepOldest(d, maxlen, x) ==
    IF Len(d) >= maxlen THEN d ELSE Append(d, x)

\* deque.append on a deque(maxlen = maxlen)
DequeAppend(d, maxlen, x) ==
    IF Len(d) >= maxlen THEN Tail(d) \o <<x>> ELSE Append(d, x)

\* a prev_cum read from the oldest bar of the history
PrevCumOldest(bs) == IF Len(bs) > 0 THEN bs[1].cvd_cum ELSE 0

\* prev_cum of init_new_bar
PrevCum(bs) == IF Len(bs) > 0 THEN bs[Len(bs)].cvd_cum ELSE 0

\* init_new_bar: the bar it stores in current_bar, or the error it raises
\* (timestamp / 1000 of None) before the assignment
init_new_bar(price, timestamp, bs) ==
    IF timestamp = None
    THEN [raised |-> TRUE, bar |-> None]
    ELSE [raised |-> FALSE,
          bar |-> Some([time |-> FromTimestamp(Val(timestamp)),
                        open |-> price, high |-> price, low |-> price,
                        close |-> price, volume |-> 0, cvd_delta |-> 0,
                        cvd_cum |-> PrevCum(bs)])]

\* a delta that forgets the sign of a sell
DeltaUnsigned(amount, side) == amount

\* delta of process_tick
Delta(amount, side) == IF side = "buy" THEN amount ELSE 0 - amount

\* an update that takes the trade's price for the high
UpdateBarHighIsPrice(bar, price, amount, side) ==
    [bar EXCEPT !.high = price, !.low = Min(@, price),
                !.close = price, !.volume = @ + amount,
                !.cvd_delta = @ + Delta(amount, side)]

\* the OHLC, volume and CVD update of process_tick
UpdateBar(bar, price, amount, side) ==
    [bar EXCEPT !.high = Max(@, price), !.low = Min(@, price),
                !.close = price, !.volume = @ + amount,
                !.cvd_delta = @ + Delta(amount, side)]

\* a close test that misses the bar whose range equals the threshold
CloseTestStrict(bar, range_height_val) == (bar.high - bar.low) > range_height_val

\* the close test of process_tick
CloseTest(bar, range_height_val) == (bar.high - bar.low) >= range_height_val

\* the finalisation of the cumulative CVD
Finalize(bar) == [bar EXCEPT !.cvd_cum = @ + bar.cvd_delta]

\* an append of the open bar itself instead of a copy
NoCopy(bar) == [bar |-> bar, same |-> TRUE]

\* bar.copy(): a new dict with the same values
Copy(bar) == [bar |-> bar, same |-> FALSE]

\* a close that leaves no open bar behind
CloseBarNoReopen(bar, price, timestamp, bs, maxlen) ==
    [current_bar |-> None, bars |-> DequeAppend(bs, maxlen, Finalize(bar)),
     aliased |-> FALSE, raised |-> FALSE, appended |-> TRUE]

\* the branch of process_tick that closes the bar: the cumulative CVD is
\* finalised in the open bar, a copy is appended, and init_new_bar replaces
\* the open bar unless it raises
CloseBar(bar, price, timestamp, bs, maxlen) ==
    LET done == Finalize(bar)
        copy == Copy(done)
        bs2 == DequeAppend(bs, maxlen, copy.bar)
        next == init_new_bar(price, timestamp, bs2)
    IN  IF next.raised
        THEN [current_bar |-> Some(done), bars |-> bs2, aliased |-> copy.same,
              raised |-> TRUE, appended |-> TRUE]
        ELSE [current_bar |-> next.bar, bars |-> bs2, aliased |-> FALSE,
              raised |-> FALSE, appended |-> TRUE]

TradeKeys == {"price", "amount", "side", "timestamp"}

\* the history when its last entry is the dict b that process_tick has
\* just assigned to (al), and the history as it is otherwise
Shared(bs, al, b) ==
    IF al /\ Len(bs) > 0 THEN [bs EXCEPT ![Len(bs)] = b] ELSE bs

\* process_tick(trade, range_height_val) on the session state (cb, bs, al):
\* the session state it leaves, whether it raised, and whether it appended
\* a bar to the history.
process_tick(trade, range_height_val, cb, bs, al, maxlen) ==
    IF ~(TradeKeys \subseteq DOMAIN trade)
    THEN [current_bar |-> cb, bars |-> bs, aliased |-> al,
          raised |-> TRUE, appended |-> FALSE]
    ELSE
      LET price == ToFloat(trade.price)
          amount == ToFloat(trade.amount)
          side == trade.side
          timestamp == trade.timestamp
          first == IF cb = None THEN init_new_bar(price, timestamp, bs)
                   ELSE [raised |-> FALSE, bar |-> cb]
      IN  IF first.raised
          THEN [current_bar |-> cb, bars |-> bs, aliased |-> al,
                raised |-> TRUE, appended |-> FALSE]
          ELSE
            LET bar == UpdateBar(Val(first.bar), price, amount, side)
            IN  IF CloseTest(bar, range_height_val)
                THEN CloseBar(bar, price, timestamp,
                              Shared(bs, al, Finalize(bar)), maxlen)
                ELSE [current_bar |-> Some(bar), bars |-> Shared(bs, al, bar),
                      aliased |-> al, raised |-> FALSE, appended |-> FALSE]

(***************************************************************************)
(* The deduplication and the cursor update of fetch_data.                  *)
(***************************************************************************)
\* Python truth value of last_trade_id
Truthy(o) == o # None /\ Val(o) # 0

\* a deduplication that lets the trade the cursor names through again
DedupeInclusive(batch, last) ==
    IF Truthy(last)
    THEN SelectSeq(batch, LAMBDA t : t.id >= Val(last))
    ELSE batch

Dedupe(batch, last) ==
    IF Truthy(last)
    THEN SelectSeq(batch, LAMBDA t : t.id > Val(last))
    ELSE batch

\* a cursor update that takes the first new trade instead of the last
NextCursorFirst(new, last) ==
    IF Len(new) > 0 THEN Some(new[1].id) ELSE last

NextCursor(new, last) ==
    IF Len(new) > 0 THEN Some(new[Len(new)].id) ELSE last

(***************************************************************************)
(* The polling loop.                                                       *)
(***************************************************************************)
IdsOf(batch) == [k \in 1..Len(batch) |-> batch[k].id]

EmptyOpenLog == [applied |-> <<>>, seed |-> None]

MaxOpt(o, n) == IF o = None THEN Some(n) ELSE Some(Max(Val(o), n))

RECURSIVE MaxIdOf(_, _)
MaxIdOf(o, s) == IF s = <<>> THEN o ELSE MaxIdOf(MaxOpt(o, Head(s).id), Tail(s))

Init ==
    /\ bars = <<>>
    /\ bars_maxlen = MAXLEN_INITIAL
    /\ current_bar = None
    /\ aliased = FALSE
    /\ last_trade_id = None
    /\ range_input = RANGE_SIZE_TICKS
    /\ pc = "fetch"
    /\ trades = <<>>
    /\ new_trades = <<>>
    /\ idx = 0
    /\ range_h = 0
    /\ error_shown = FALSE
    /\ chart = None
    /\ status_line = None
    /\ closed_log = <<>>
    /\ open_log = EmptyOpenLog
    /\ was_reset = FALSE
    /\ reset_cursor = None
    /\ max_consumed = None
    /\ last_step = "init"
    /\ ever_ok = FALSE
    /\ ok_since_empty = FALSE
    /\ dd_trades = <<>>
    /\ dd_in = <<>>
    /\ dd_out = <<>>

\* a threshold taken from the configured default, whatever the input says
RangeHeightDefault(ticks) == RANGE_SIZE_TICKS * TICK_VALUE

\* range_h of fetch_data
RangeHeight(ticks) == ticks * TICK_VALUE

\* fetch_data: exchange.fetch_trades returns batch; the batch is
\* deduplicated and the cursor moved.
FetchOk(batch) ==
    /\ pc = "fetch"
    /\ LET new == Dedupe(batch, last_trade_id)
       IN  /\ trades' = IdsOf(batch)
           /\ new_trades' = new
           /\ last_trade_id' = NextCursor(new, last_trade_id)
           /\ range_h' = IF Len(new) > 0 THEN RangeHeight(range_input) ELSE 0
           /\ pc' = IF Len(new) > 0 THEN "loop" ELSE "render"
           /\ max_consumed' = MaxIdOf(max_consumed, new)
    /\ idx' = 0
    /\ error_shown' = FALSE
    /\ UNCHANGED <<bars, bars_maxlen, current_bar, aliased, range_input, chart, status_line>>
    /\ last_step' = "fetch_ok"
    /\ UNCHANGED <<closed_log, open_log, was_reset, reset_cursor, ever_ok,
                   ok_since_empty, dd_vars>>

\* a failure that ends main_loop
FetchFailFatal ==
    /\ pc = "fetch"
    /\ error_shown' = TRUE
    /\ pc' = "stopped"
    /\ trades' = <<>>
    /\ new_trades' = <<>>
    /\ idx' = 0
    /\ range_h' = 0
    /\ last_step' = "fetch_fail"
    /\ UNCHANGED <<bars, bars_maxlen, current_bar, aliased, last_trade_id, range_input,
                   chart, status_line, dd_vars>>
    /\ UNCHANGED <<closed_log, open_log, was_reset, reset_cursor, max_consumed,
                   ever_ok, ok_since_empty>>

\* a failure handling that drops the open bar
FetchFailDroppingBar ==
    /\ pc = "fetch"
    /\ error_shown' = TRUE
    /\ pc' = "render"
    /\ current_bar' = None
    /\ aliased' = aliased
    /\ trades' = <<>>
    /\ new_trades' = <<>>
    /\ idx' = 0
    /\ range_h' = 0
    /\ last_step' = "fetch_fail"
    /\ UNCHANGED <<bars, bars_maxlen, last_trade_id, range_input,
                   chart, status_line, dd_vars>>
    /\ UNCHANGED <<closed_log, open_log, was_reset, reset_cursor, max_consumed,
                   ever_ok, ok_since_empty>>

\* fetch_data: exchange.fetch_trades raises; the except clause reports it.
FetchFail ==
    /\ pc = "fetch"
    /\ error_shown' = TRUE
    /\ pc' = "render"
    /\ trades' = <<>>
    /\ new_trades' = <<>>
    /\ idx' = 0
    /\ range_h' = 0
    /\ last_step' = "fetch_fail"
    /\ UNCHANGED <<bars, bars_maxlen, current_bar, aliased, last_trade_id, range_input,
                   chart, status_line, dd_vars>>
    /\ UNCHANGED <<closed_log, open_log, was_reset, reset_cursor, max_consumed,
                   ever_ok, ok_since_empty>>

\* fetch_data: one pass of the for loop over new_trades; when process_tick
\* raises, the except clause reports it and the loop is left.
ProcessTick ==
    /\ pc = "loop"
    /\ LET t == new_trades[idx + 1]
           r == process_tick(t, range_h, current_bar, bars, aliased, bars_maxlen)
           updated == r.appended \/ ~r.raised
           ol1 == IF updated /\ current_bar = None
                  THEN [applied |-> <<>>, seed |-> Some(t.id)] ELSE open_log
           ol2 == IF updated THEN [ol1 EXCEPT !.applied = Append(@, t)] ELSE ol1
       IN  /\ current_bar' = r.current_bar
           /\ bars' = r.bars
           /\ aliased' = r.aliased
           /\ error_shown' = r.raised
           /\ idx' = idx + 1
           /\ pc' = IF r.raised \/ idx + 1 = Len(new_trades) THEN "render" ELSE "loop"
           /\ closed_log' = IF r.appended
                            THEN Append(closed_log,
                                        [bar |-> r.bars[Len(r.bars)],
                                         applied |-> ol2.applied, seed |-> ol2.seed])
                            ELSE closed_log
           /\ open_log' = IF r.appended /\ ~r.raised
                          THEN [applied |-> <<>>, seed |-> Some(t.id)] ELSE ol2
           /\ ever_ok' = (ever_ok \/ ~r.raised)
           /\ ok_since_empty' = (ok_since_empty \/ ~r.raised)
    /\ UNCHANGED <<bars_maxlen, last_trade_id, range_input, trades, new_trades,
                   range_h, chart, status_line>>
    /\ last_step' = "tick"
    /\ UNCHANGED <<was_reset, reset_cursor, max_consumed, dd_vars>>

\* a data frame that ends with the open bar
DataFrameWithOpenBar(bs, cb) == IF cb = None THEN bs ELSE Append(bs, Val(cb))

\* df of main_loop: pd.DataFrame(st.session_state.bars)
DataFrame(bs, cb) == bs

\* main_loop: the chart and the status line of the cycle.
Render ==
    /\ pc = "render"
    /\ IF Len(bars) > 0
       THEN LET df == DataFrame(bars, current_bar)
            IN  /\ chart' = Some(df)
                /\ status_line' = Some([last_price |-> df[Len(df)].close,
                                        last_cvd |-> df[Len(df)].cvd_cum,
                                        count |-> Len(df)])
       ELSE /\ chart' = chart
            /\ status_line' = Some([info |-> "waiting"])
    /\ pc' = "sleep"
    /\ trades' = <<>>
    /\ new_trades' = <<>>
    /\ idx' = 0
    /\ range_h' = 0
    /\ last_step' = "render"
    /\ UNCHANGED <<bars, bars_maxlen, current_bar, aliased, last_trade_id, range_input,
                   error_shown, dd_vars>>
    /\ UNCHANGED <<closed_log, open_log, was_reset, reset_cursor, max_consumed,
                   ever_ok, ok_since_empty>>

\* main_loop: asyncio.sleep(UPDATE_INTERVAL) is over.
Sleep ==
    /\ pc = "sleep"
    /\ pc' = "fetch"
    /\ last_step' = "sleep"
    /\ error_shown' = FALSE
    /\ UNCHANGED <<bars, bars_maxlen, current_bar, aliased, last_trade_id, range_input,
                   trades, new_trades, idx, range_h, chart, status_line,
                   dd_vars>>
    /\ UNCHANGED <<closed_log, open_log, was_reset, reset_cursor, max_consumed,
                   ever_ok, ok_since_empty>>

\* a reset that also forgets the cursor
ResetHandlerClearingCursor ==
    /\ bars' = <<>>
    /\ bars_maxlen' = MAXLEN_RESET
    /\ current_bar' = None
    /\ aliased' = FALSE
    /\ last_trade_id' = None

\* the handler of the reset button: a new deque and no open bar;
\* last_trade_id is not assigned
ResetHandler ==
    /\ bars' = <<>>
    /\ bars_maxlen' = MAXLEN_RESET
    /\ current_bar' = None
    /\ aliased' = FALSE
    /\ last_trade_id' = last_trade_id

\* A widget interaction re-executes the script from the top: the number
\* input has the value the user gave it, the reset button handler runs
\* when the button was pressed, and main_loop starts again.  The running
\* script is left at a Streamlit call or while it is suspended, never
\* inside the for loop of fetch_data.
Rerun(value, pressed) ==
    /\ pc \in {"fetch", "render", "sleep"}
    /\ range_input' = value
    /\ IF pressed
       THEN /\ ResetHandler
            /\ closed_log' = <<>>
            /\ open_log' = EmptyOpenLog
            /\ was_reset' = TRUE
            /\ reset_cursor' = last_trade_id
            /\ ok_since_empty' = FALSE
       ELSE UNCHANGED <<bars, bars_maxlen, current_bar, aliased, last_trade_id,
                        closed_log, open_log, was_reset, reset_cursor,
                        ok_since_empty>>
    /\ last_step' = IF pressed THEN "reset" ELSE "rerun"
    /\ pc' = "fetch"
    /\ trades' = <<>>
    /\ new_trades' = <<>>
    /\ idx' = 0
    /\ range_h' = 0
    /\ error_shown' = FALSE
    /\ chart' = None
    /\ status_line' = None
    /\ UNCHANGED <<max_consumed, ever_ok, dd_vars>>

Next ==
    \/ \E batch \in AscendingBatches : FetchOk(batch)
    \/ FetchFail
    \/ ProcessTick
    \/ Render
    \/ Sleep
    \/ \E value \in RangeInputs, pressed \in BOOLEAN : Rerun(value, pressed)

Spec == Init /\ [][Next]_vars

\* The loop under its scheduling: an awaited fetch_trades returns or
\* raises, the for loop, the rendering and the sleep go on.  The user's
\* interactions (Rerun) are under no obligation.
\* The batches are those of buys of amount 1 and of malformed trades, and
\* the range input keeps its value.
LiveTrade(t) == t.amount = 1 /\ ("side" \in DOMAIN t => t.price # 8)

LiveBatches ==
    { b \in AscendingBatches : \A k \in 1..Len(b) : LiveTrade(b[k]) }

Fetch == (\E batch \in LiveBatches : FetchOk(batch)) \/ FetchFail

NextLive ==
    \/ \E batch \in LiveBatches : FetchOk(batch)
    \/ FetchFail
    \/ ProcessTick
    \/ Render
    \/ Sleep
    \/ \E pressed \in BOOLEAN : Rerun(range_input, pressed)

SpecLive ==
    /\ Init /\ [][NextLive]_vars
    /\ WF_vars(Fetch) /\ WF_vars(ProcessTick) /\ WF_vars(Render) /\ WF_vars(Sleep)

(***************************************************************************)
(* The aggregator on well-formed trades with a threshold that is fixed     *)
(* while the aggregator holds a bar: the range input changes only together *)
(* with a reset or while there is no bar at all.                           *)
(***************************************************************************)
AggregatorEmpty == bars = <<>> /\ current_bar = None

NextAgg ==
    \/ \E batch \in WellFormedBatches : FetchOk(batch)
    \/ FetchFail
    \/ ProcessTick
    \/ Render
    \/ Sleep
    \/ \E value \in RangeInputs, pressed \in BOOLEAN :
          /\ pressed \/ AggregatorEmpty
          /\ Rerun(value, pressed)

SpecAgg == Init /\ [][NextAgg]_vars

(***************************************************************************)
(* A long run that fills the history: the exchange delivers one fixed tape *)
(* of well-formed trades, each cycle fetches the last trade seen and the   *)
(* next one, and the reset button is pressed at most once, on the empty    *)
(* aggregator or on a full history.                                        *)
(***************************************************************************)
HistTrade(id) ==
    [id |-> id,
     price |-> CASE id % 3 = 1 -> 0 [] id % 3 = 2 -> 8 [] OTHER -> 15,
     amount |-> 1 + (id % 2),
     side |-> IF id % 4 < 2 THEN "buy" ELSE "sell",
     timestamp |-> Some(TimestampOf(id))]

HistBatch(last) ==
    IF last = None THEN <<HistTrade(1)>>
    ELSE <<HistTrade(Val(last)), HistTrade(Val(last) + 1)>>

HistoryFull == Len(bars) = bars_maxlen

NextHist ==
    \/ /\ last_trade_id # None => Val(last_trade_id) < MaxHistId
       /\ FetchOk(HistBatch(last_trade_id))
    \/ ProcessTick
    \/ Render
    \/ Sleep
    \/ /\ bars_maxlen = MAXLEN_INITIAL
       /\ AggregatorEmpty \/ HistoryFull
       /\ Rerun(range_input, TRUE)

SpecHist == Init /\ [][NextHist]_vars

(***************************************************************************)
(* The deduplication as a function: a batch and a cursor are drawn, and    *)
(* the deduplication and the cursor update of fetch_data run twice on the  *)
(* same batch.                                                             *)
(***************************************************************************)
DedupTrades ==
    { [id |-> id, price |-> p, amount |-> 1, side |-> "buy",
       timestamp |-> Some(TimestampOf(id))] : id \in 1..MaxDedupId, p \in {0, 15} }

RECURSIVE SeqsUpTo(_, _)
SeqsUpTo(S, n) ==
    IF n = 0 THEN {<<>>}
    ELSE LET shorter == SeqsUpTo(S, n - 1)
         IN  shorter \cup { Append(q, x) : q \in shorter, x \in S }

DedupBatches == SeqsUpTo(DedupTrades, MaxDedupLen)
DedupCursors == {None} \cup { Some(id) : id \in 1..MaxDedupId }

InitDedup ==
    /\ bars = <<>>
    /\ bars_maxlen = MAXLEN_INITIAL
    /\ current_bar = None
    /\ aliased = FALSE
    /\ last_trade_id \in DedupCursors
    /\ range_input = RANGE_SIZE_TICKS
    /\ pc = "dedup"
    /\ trades = <<>>
    /\ new_trades = <<>>
    /\ idx = 0
    /\ range_h = 0
    /\ error_shown = FALSE
    /\ chart = None
    /\ status_line = None
    /\ closed_log = <<>>
    /\ open_log = EmptyOpenLog
    /\ was_reset = FALSE
    /\ reset_cursor = None
    /\ max_consumed = None
    /\ last_step = "init"
    /\ ever_ok = FALSE
    /\ ok_since_empty = FALSE
    /\ dd_trades \in DedupBatches
    /\ dd_in = <<>>
    /\ dd_out = <<>>

DedupPass ==
    /\ pc = "dedup"
    /\ Len(dd_out) < 2
    /\ LET new == Dedupe(dd_trades, last_trade_id)
       IN  /\ new_trades' = new
           /\ last_trade_id' = NextCursor(new, last_trade_id)
           /\ dd_out' = Append(dd_out, new)
           /\ dd_in' = Append(dd_in, last_trade_id)
    /\ last_step' = "dedup"
    /\ UNCHANGED <<bars, bars_maxlen, current_bar, aliased, range_input, pc, trades, idx,
                   range_h, error_shown, chart, status_line, dd_trades>>
    /\ UNCHANGED <<closed_log, open_log, was_reset, reset_cursor, max_consumed,
                   ever_ok, ok_since_empty>>

NextDedup == DedupPass

SpecDedup == InitDedup /\ [][NextDedup]_vars

(***************************************************************************)
(* Notions the claims are stated in.                                       *)
(***************************************************************************)
Threshold == range_input * TICK_VALUE

BarRange(b) == b.high - b.low

SetMax(S) == CHOOSE x \in S : \A y \in S : y <= x
SetMin(S) == CHOOSE x \in S : \A y \in S : x <= y

\* the prices seen within the open bar once trade t has been taken: its
\* opening price, the prices of the trades applied to it, and t's price
PricesWithin(t) ==
    {t.price} \cup
    (IF current_bar = None THEN {}
     ELSE {Val(current_bar).open} \cup
          { open_log.applied[k].price : k \in 1..Len(open_log.applied) })

\* this step is a process_tick call that appended a bar to the history
TickAppended == pc = "loop" /\ Len(closed_log') = Len(closed_log) + 1

(***************************************************************************)
(* C1.  With a fixed positive threshold and well-formed trades, a          *)
(* process_tick call closes a bar exactly when, with that trade, max price *)
(* minus min price within the bar reaches or exceeds the threshold; after  *)
(* every step the open bar's range is below the threshold and the range of *)
(* every bar in the history is at least the threshold.                     *)
(***************************************************************************)
C1_CloseExactly ==
    pc = "loop" =>
        LET t == new_trades[idx + 1]
            S == PricesWithin(t)
        IN  TickAppended <=> (SetMax(S) - SetMin(S) >= Threshold)

C1_RangesAfter ==
    /\ Threshold' > 0
    /\ current_bar' # None => BarRange(Val(current_bar')) < Threshold'
    /\ \A n \in 1..Len(bars') : BarRange(bars'[n]) >= Threshold'

C1_BarCloseThreshold == [][C1_CloseExactly /\ C1_RangesAfter]_vars

\* a bar was closed by the trade that made its range equal to the
\* threshold, and the next trade was applied to the new bar without
\* closing it
C1_Witness ==
    /\ Len(bars) = 1
    /\ BarRange(bars[1]) = Threshold
    /\ current_bar # None
    /\ Len(open_log.applied) = 1
    /\ BarRange(Val(current_bar)) > 0

(***************************************************************************)
(* C2.  CVD conservation over the bars closed since the history was last   *)
(* empty, in closing order.                                                *)
(***************************************************************************)
RECURSIVE SignedSum(_)
SignedSum(ts) ==
    IF ts = <<>> THEN 0
    ELSE (IF Head(ts).side = "buy" THEN Head(ts).amount ELSE 0 - Head(ts).amount)
         + SignedSum(Tail(ts))

ClosedBars == [n \in 1..Len(closed_log) |-> closed_log[n].bar]

LastN(q, n) == SubSeq(q, Len(q) - n + 1, Len(q))

\* cvd_cum[n] = cvd_cum[n-1] + cvd_delta[n], with 0 before the first bar
ChainOk(n) ==
    closed_log[n].bar.cvd_cum =
        (IF n = 1 THEN 0 ELSE closed_log[n - 1].bar.cvd_cum) + closed_log[n].bar.cvd_delta

\* the trades applied to a bar, without the trade that seeded it
ExcludingSeed(e) == SelectSeq(e.applied, LAMBDA t : Some(t.id) # e.seed)

WellFormed(t) == TradeKeys \subseteq DOMAIN t /\ t.timestamp # None

\* C2 as stated, for the bars that took well-formed trades only: every
\* closed bar's cvd_delta is the signed sum over the trades processed
\* while it was open, the closing trade included and the seeding trade
\* excluded.
C2_AsStated ==
    \A n \in 1..Len(closed_log) :
        (\A k \in 1..Len(closed_log[n].applied) : WellFormed(closed_log[n].applied[k])) =>
            /\ ChainOk(n)
            /\ closed_log[n].bar.cvd_delta = SignedSum(ExcludingSeed(closed_log[n]))

\* C2 amended: the history holds the most recently closed bars; for every
\* closed bar the chain equation holds and cvd_delta is the signed sum over
\* exactly the trades applied to it while it was open.  The trade that
\* seeded the bar is among them exactly when it created the bar on an
\* aggregator without an open bar (the first bar since the start or a
\* reset); a bar seeded by the trade that closed its predecessor does not
\* count that trade.
C2_CvdConservation ==
    /\ bars = LastN(ClosedBars, Min(Len(closed_log), bars_maxlen))
    /\ \A n \in 1..Len(closed_log) :
        LET e == closed_log[n]
        IN  /\ ChainOk(n)
            /\ e.bar.cvd_delta = SignedSum(e.applied)
            /\ e.applied # <<>>
            /\ (Some(e.applied[1].id) = e.seed) <=> (e.seed = closed_log[1].seed)

\* two bars are closed; the first counted a buy and a sell
C2_Witness ==
    /\ Len(closed_log) = 2
    /\ Len(closed_log[1].applied) = 2
    /\ closed_log[1].applied[1].side # closed_log[1].applied[2].side
    /\ closed_log[2].seed # closed_log[1].seed

(***************************************************************************)
(* C3.  The deduplication returns the batch unchanged when last_trade_id   *)
(* is absent and otherwise exactly the trades with id greater than         *)
(* last_trade_id, in the order of the batch.                               *)
(***************************************************************************)
RECURSIVE NewerThan(_, _)
NewerThan(batch, id) ==
    IF batch = <<>> THEN <<>>
    ELSE (IF Head(batch).id > id THEN <<Head(batch)>> ELSE <<>>)
         \o NewerThan(Tail(batch), id)

C3_DedupReturns ==
    \A k \in 1..Len(dd_out) :
        dd_out[k] = IF dd_in[k] = None THEN dd_trades
                    ELSE NewerThan(dd_trades, Val(dd_in[k]))

\* a pass with a cursor present dropped some trades of the batch and kept
\* others
C3_Witness ==
    /\ Len(dd_out) >= 1
    /\ dd_in[1] # None
    /\ dd_out[1] # <<>>
    /\ Len(dd_out[1]) < Len(dd_trades)

(***************************************************************************)
(* C4.  Two passes over the same id-ascending batch, the cursor updated    *)
(* from the first pass before the second.                                  *)
(***************************************************************************)
Ascending(batch) ==
    \A i, j \in 1..Len(batch) : i < j => batch[i].id < batch[j].id

Occurrences(t, q) == Cardinality({ k \in 1..Len(q) : q[k] = t })

InOutputs(t) == Occurrences(t, dd_out[1]) + Occurrences(t, dd_out[2])

\* C4 as stated: every trade of the batch is in exactly one of the two
\* outputs.
C4_AsStated ==
    (Len(dd_out) = 2 /\ Ascending(dd_trades)) =>
        \A k \in 1..Len(dd_trades) : InOutputs(dd_trades[k]) = 1

\* C4 amended: every trade of the batch newer than the cursor in force
\* before the first pass (every trade when that cursor is absent) is in
\* exactly one of the two outputs, a trade not newer than it is in none,
\* and no trade is in both; the second pass returns nothing.
C4_DedupIdempotent ==
    (Len(dd_out) = 2 /\ Ascending(dd_trades)) =>
        /\ \A k \in 1..Len(dd_trades) :
              InOutputs(dd_trades[k]) =
                 IF dd_in[1] = None \/ dd_trades[k].id > Val(dd_in[1]) THEN 1 ELSE 0
        /\ dd_out[2] = <<>>

\* both passes ran on an ascending batch holding a trade the cursor had
\* already passed and two newer ones
C4_Witness ==
    /\ Len(dd_out) = 2
    /\ Ascending(dd_trades)
    /\ dd_in[1] # None
    /\ Len(dd_out[1]) = 2
    /\ Len(dd_trades) = 3

(***************************************************************************)
(* C5.  The history never holds more bars than its capacity (200, and 100  *)
(* once the reset button has been pressed); once more bars than that have  *)
(* been closed since it was last empty it holds exactly capacity bars, and *)
(* it always holds the most recently closed bars in closing order.         *)
(***************************************************************************)
Capacity == IF was_reset THEN MAXLEN_RESET ELSE MAXLEN_INITIAL

C5_HistoryBound ==
    /\ bars_maxlen = Capacity
    /\ Len(bars) <= Capacity
    /\ Len(closed_log) > Capacity => Len(bars) = Capacity
    /\ bars = LastN(ClosedBars, Min(Len(closed_log), Capacity))

\* more bars than the capacity were closed after a reset: the oldest were
\* evicted
C5_Witness ==
    /\ was_reset
    /\ Len(closed_log) > Capacity + 1
    /\ Len(bars) = MAXLEN_RESET

(***************************************************************************)
(* C6.  When a process_tick call closes a bar and returns, the open bar it *)
(* leaves has open = high = low = close = the closing trade's price,       *)
(* volume 0, cvd_delta 0 and the cvd_cum of the bar just closed, also when *)
(* the append evicted the oldest bar.                                      *)
(***************************************************************************)
C6_Seeded ==
    (TickAppended /\ ~error_shown') =>
        LET t == new_trades[idx + 1]
            closedBar == closed_log'[Len(closed_log')].bar
            nb == Val(current_bar')
        IN  /\ current_bar' # None
            /\ closedBar = bars'[Len(bars')]
            /\ nb.open = t.price /\ nb.high = t.price
            /\ nb.low = t.price /\ nb.close = t.price
            /\ nb.volume = 0
            /\ nb.cvd_delta = 0
            /\ nb.cvd_cum = closedBar.cvd_cum
            /\ nb.time = FromTimestamp(Val(t.timestamp))

C6_CarryOverSeeding == [][C6_Seeded]_vars

\* a process_tick call has just closed a bar on a full history and left a
\* fresh open bar that carries a non-zero cumulative CVD
C6_Witness ==
    /\ last_step = "tick"
    /\ ~error_shown
    /\ Len(closed_log) > bars_maxlen
    /\ current_bar # None
    /\ open_log.applied = <<>>
    /\ Val(current_bar).cvd_cum # 0
    /\ Val(current_bar).cvd_cum = bars[Len(bars)].cvd_cum
    /\ Val(current_bar).cvd_cum # bars[1].cvd_cum

(***************************************************************************)
(* C7.  The reset leaves the history empty and the open bar absent and     *)
(* does not touch last_trade_id; after it no trade with an id at or below  *)
(* the cursor of the moment of the reset reaches new_trades or a bar of    *)
(* the fresh chart.                                                        *)
(***************************************************************************)
AppliedIds ==
    { open_log.applied[k].id : k \in 1..Len(open_log.applied) }
    \cup UNION { { closed_log[n].applied[k].id : k \in 1..Len(closed_log[n].applied) } :
                 n \in 1..Len(closed_log) }

C7_ResetStep ==
    (last_step' = "reset") =>
        /\ bars' = <<>>
        /\ bars_maxlen' = MAXLEN_RESET
        /\ current_bar' = None
        /\ last_trade_id' = last_trade_id

C7_Filtered ==
    (was_reset /\ reset_cursor # None) =>
        /\ last_trade_id # None
        /\ Val(last_trade_id) >= Val(reset_cursor)
        /\ \A k \in 1..Len(new_trades) : new_trades[k].id > Val(reset_cursor)
        /\ \A id \in AppliedIds : id > Val(reset_cursor)

C7_ResetKeepsCursor == [][C7_ResetStep /\ C7_Filtered']_vars

\* after a reset a batch that held a trade from before the reset was
\* fetched, and only its newer trades went into the fresh chart
C7_Witness ==
    /\ was_reset
    /\ reset_cursor # None
    /\ last_step = "tick"
    /\ \E k \in 1..Len(trades) : trades[k] <= Val(reset_cursor)
    /\ open_log.applied # <<>>
    /\ current_bar # None

(***************************************************************************)
(* C8.  One open bar.                                                      *)
(***************************************************************************)
ClosedAt(e) == e.applied[Len(e.applied)].id

AllLoggedWellFormed ==
    /\ \A k \in 1..Len(open_log.applied) : WellFormed(open_log.applied[k])
    /\ \A n \in 1..Len(closed_log) :
          \A k \in 1..Len(closed_log[n].applied) : WellFormed(closed_log[n].applied[k])

C9_FetchStep ==
    (last_step' = "fetch_ok") =>
        last_trade_id' = IF new_trades' # <<>>
                         THEN Some(new_trades'[Len(new_trades')].id)
                         ELSE last_trade_id

C9_OtherSteps ==
    (last_step' # "fetch_ok") => last_trade_id' = last_trade_id

C9_Monotone ==
    last_trade_id # None =>
        last_trade_id' # None /\ Val(last_trade_id') >= Val(last_trade_id)

C9_CursorUpdate ==
    [][C9_FetchStep /\ C9_OtherSteps /\ C9_Monotone
       /\ last_trade_id' = max_consumed']_vars

\* a fetch returned trades that are all at or below a cursor that had
\* moved before: new_trades is empty and the cursor stays
C9_Witness ==
    /\ last_step = "fetch_ok"
    /\ trades # <<>>
    /\ new_trades = <<>>
    /\ last_trade_id # None
    /\ Val(last_trade_id) >= 2
    /\ \A k \in 1..Len(trades) : trades[k] <= Val(last_trade_id)

(***************************************************************************)
(* C10.  A failing fetch is reported and leaves current_bar, bars and      *)
(* last_trade_id as they were; the cycle goes on to its rendering and its  *)
(* sleep, which leave them alone too, and the next fetch follows.          *)
(***************************************************************************)
Aggregate == <<current_bar, bars, bars_maxlen, last_trade_id>>

C10_FailStep ==
    (last_step' = "fetch_fail") =>
        /\ error_shown'
        /\ Aggregate' = Aggregate
        /\ pc' = "render"

C10_AfterFail ==
    (last_step = "fetch_fail") =>
        /\ last_step' \in {"render", "rerun", "reset"}
        /\ (last_step' = "render") =>
              /\ Aggregate' = Aggregate
              /\ error_shown'
              /\ pc' = "sleep"

C10_SleepStep ==
    (last_step' = "sleep") => Aggregate' = Aggregate /\ pc' = "fetch"

C10_FetchFailure == [][C10_FailStep /\ C10_AfterFail /\ C10_SleepStep]_vars

\* the fetch failed while the aggregator held an open bar, a history and
\* a cursor
C10_Witness ==
    /\ last_step = "fetch_fail"
    /\ error_shown
    /\ pc = "render"
    /\ current_bar # None
    /\ bars # <<>>
    /\ last_trade_id # None

(***************************************************************************)
(* C11.  The loop is never stuck or terminated: it is always at one of its *)
(* four positions, after a cycle that reported an error it comes back to   *)
(* the fetch, and whenever it is at the fetch a fetch is attempted.        *)
(***************************************************************************)
FetchAttempted == last_step \in {"fetch_ok", "fetch_fail"}

C11_LoopNeverStops ==
    /\ [](pc \in {"fetch", "loop", "render", "sleep"})
    /\ (error_shown ~> (pc = "fetch"))
    /\ ((pc = "fetch") ~> FetchAttempted)
    /\ []<>FetchAttempted

\* with no reset in between, every process_tick call so far raised, and a
\* further fetch has been made and has delivered new trades
C11_Witness ==
    /\ ~was_reset
    /\ last_step = "fetch_ok"
    /\ current_bar = None
    /\ Len(new_trades) < Len(trades)
    /\ new_trades # <<>>

(***************************************************************************)
(* C12.  Suspension points.                                                *)
(***************************************************************************)
\* main_loop is suspended in an await: of fetch_trades, of exchange.close()
\* or of asyncio.sleep
Suspended == pc \in {"fetch", "render", "sleep"}

\* the process_tick call of trade k of new_trades raised after it had
\* changed current_bar and bars
PartlyApplied(k) ==
    /\ error_shown
    /\ k = idx
    /\ new_trades[k].id \in AppliedIds

\* C12 as stated: wherever the loop is suspended, no trade of the cycle's
\* new_trades is applied in part, and the trades of new_trades that
\* last_trade_id names (id <= last_trade_id) are exactly the applied ones.
C12_AsStated ==
    Suspended =>
        \A k \in 1..Len(new_trades) :
            /\ ~PartlyApplied(k)
            /\ (last_trade_id # None /\ new_trades[k].id <= Val(last_trade_id))
                  <=> (new_trades[k].id \in AppliedIds)

(***************************************************************************)
(* C13.  Every process_tick call that gets as far as its close test closes *)
(* the bar exactly when, with that trade, the range of the open bar        *)
(* reaches range_input * TICK_VALUE for the value range_input has when the *)
(* trade is processed, whatever it was when the bar was opened.            *)
(***************************************************************************)
ReachesCloseTest(t) ==
    /\ TradeKeys \subseteq DOMAIN t
    /\ current_bar = None => t.timestamp # None

C13_CloseTestNow ==
    pc = "loop" =>
        LET t == new_trades[idx + 1]
            S == PricesWithin(t)
        IN  /\ range_h = range_input * TICK_VALUE
            /\ range_input' = range_input
            /\ IF ReachesCloseTest(t)
               THEN TickAppended <=> (SetMax(S) - SetMin(S) >= range_input * TICK_VALUE)
               ELSE ~TickAppended

C13_LiveThreshold == [][C13_CloseTestNow]_vars

PricesBeforeClose(e) ==
    {e.bar.open} \cup { e.applied[k].price : k \in 1..(Len(e.applied) - 1) }

\* a bar whose range had reached the present threshold before its closing
\* trade came: the threshold was higher while those trades were taken, was
\* lowered while the bar was open, and the next trade closed the bar
C13_Witness ==
    /\ last_step = "tick"
    /\ closed_log # <<>>
    /\ open_log.applied = <<>>
    /\ current_bar # None
    /\ LET e == closed_log[Len(closed_log)]
           S == PricesBeforeClose(e)
       IN  /\ Len(e.applied) >= 2
           /\ \A k \in 1..Len(e.applied) : WellFormed(e.applied[k])
           /\ SetMax(S) - SetMin(S) >= Threshold
           /\ BarRange(e.bar) < RANGE_SIZE_TICKS * TICK_VALUE

(***************************************************************************)
(* C14.  Provisional cvd_cum.                                              *)
(***************************************************************************)
LastClosedCum(log) == IF log = <<>> THEN 0 ELSE log[Len(log)].bar.cvd_cum

\* the bar that is open before the step is still the open bar after it
StaysOpen ==
    /\ current_bar # None
    /\ current_bar' # None
    /\ open_log'.seed = open_log.seed

\* C14 as stated: an open bar's cvd_cum is the cvd_cum of the bar closed
\* last (0 if none since the aggregator was last empty); it does not take
\* in the bar's own cvd_delta as long as the bar is open; the step that
\* closes a bar adds the bar's cvd_delta to it once.
C14_Stated ==
    /\ current_bar' # None => Val(current_bar').cvd_cum = LastClosedCum(closed_log')
    /\ StaysOpen => Val(current_bar').cvd_cum = Val(current_bar).cvd_cum
    /\ TickAppended =>
          LET done == closed_log'[Len(closed_log')].bar
          IN  done.cvd_cum = LastClosedCum(closed_log) + done.cvd_delta

C14_AsStated == [][C14_Stated]_vars

(***************************************************************************)
(* C15.  What the rendering shows.                                         *)
(***************************************************************************)
Waiting == Some([info |-> "waiting"])

C16_AsStated ==
    pc # "loop" =>
        \A k \in 1..Len(new_trades) :
            (/\ WellFormed(new_trades[k])
             /\ last_trade_id # None
             /\ new_trades[k].id <= Val(last_trade_id))
                => new_trades[k].id \in AppliedIds

(***************************************************************************)
(* C17.  Atomicity of process_tick.                                        *)
(***************************************************************************)
\* this step is a process_tick call that raised
TickRaised == pc = "loop" /\ error_shown'

\* C17 as stated: a process_tick call that raises leaves current_bar and
\* bars exactly as they were before the call.
C17_Stated == TickRaised => (current_bar' = current_bar /\ bars' = bars)

C17_AsStated == [][C17_Stated]_vars

(***************************************************************************)
(* C18.  Every bar, open or finalized, has low <= open <= high and         *)
(* low <= close <= high.  A process_tick call that updates a bar never     *)
(* lowers its high, never raises its low, leaves its open and time, sets   *)
(* its close to the trade's price and, amounts being non-negative, never   *)
(* decreases its volume; a call that raises before the update changes      *)
(* nothing.                                                                *)
(***************************************************************************)
Shaped(b) ==
    /\ b.low <= b.open /\ b.open <= b.high
    /\ b.low <= b.close /\ b.close <= b.high

AllShaped ==
    /\ current_bar # None => Shaped(Val(current_bar))
    /\ \A n \in 1..Len(bars) : Shaped(bars[n])
    /\ \A n \in 1..Len(closed_log) : Shaped(closed_log[n].bar)

\* the bar after the update by trade t: current_bar when it stays open,
\* the bar appended when the call closed it
C18_Update ==
    (pc = "loop" /\ current_bar # None) =>
        LET t == new_trades[idx + 1]
            old == Val(current_bar)
            new == IF TickAppended THEN closed_log'[Len(closed_log')].bar
                   ELSE Val(current_bar')
        IN  IF TradeKeys \subseteq DOMAIN t
            THEN /\ t.amount >= 0
                 /\ new.high >= old.high
                 /\ new.low <= old.low
                 /\ new.open = old.open
                 /\ new.time = old.time
                 /\ new.close = t.price
                 /\ new.volume >= old.volume
                 /\ new.volume = old.volume + t.amount
            ELSE current_bar' = current_bar /\ bars' = bars

C18_BarShape == [][AllShaped' /\ C18_Update]_vars

\* an open bar that has taken two trades: its low has gone below its open,
\* its close is the last price
C18_Witness ==
    /\ last_step = "tick"
    /\ current_bar # None
    /\ Len(open_log.applied) >= 2
    /\ Val(current_bar).low < Val(current_bar).open
    /\ Val(current_bar).close = open_log.applied[Len(open_log.applied)].price
    /\ Val(current_bar).volume >= 2
    /\ \A k \in 1..Len(open_log.applied) : WellFormed(open_log.applied[k])

(***************************************************************************)
(* C19.  An entry of the history is never changed: a step leaves the       *)
(* history as it is, appends one bar to it (dropping the oldest entry when *)
(* it is full), or empties it by a reset; every entry still has the values *)
(* it was appended with; and the open bar is never the same dict as an     *)
(* entry of the history.                                                   *)
(***************************************************************************)
C19_Step ==
    \/ bars' = bars
    \/ last_step' = "reset" /\ bars' = <<>>
    \/ /\ TickAppended
       /\ Len(bars') = Min(Len(bars) + 1, bars_maxlen)
       /\ LET kept == Len(bars') - 1
          IN  SubSeq(bars', 1, kept) = SubSeq(bars, Len(bars) - kept + 1, Len(bars))

C19_AsAppended ==
    \A n \in 1..Len(bars) :
        bars[n] = closed_log[Len(closed_log) - Len(bars) + n].bar

C19_FinalizedImmutable == [][C19_Step /\ C19_AsAppended' /\ ~aliased']_vars

\* current_bar still holds a bar of which the history has a copy, and has
\* been updated since the copy was made: the copy has kept its values
C19_Witness ==
    /\ last_step = "tick"
    /\ bars # <<>>
    /\ current_bar # None
    /\ closed_log[Len(closed_log)].seed = open_log.seed
    /\ Len(open_log.applied) > Len(closed_log[Len(closed_log)].applied)
    /\ Val(current_bar).volume > bars[Len(bars)].volume
    /\ bars[Len(bars)] = closed_log[Len(closed_log)].bar

(***************************************************************************)
(* C20.  Running totals.                                                   *)
(***************************************************************************)
\* the trades process_tick has applied since the aggregator was last empty
ProcessedTrades ==
    { open_log.applied[k] : k \in 1..Len(open_log.applied) }
    \cup UNION { { closed_log[n].applied[k] : k \in 1..Len(closed_log[n].applied) } :
                 n \in 1..Len(closed_log) }

RECURSIVE SignedTotal(_)
SignedTotal(S) ==
    IF S = {} THEN 0
    ELSE LET t == CHOOSE x \in S : TRUE
         IN  Delta(t.amount, t.side) + SignedTotal(S \ {t})

RECURSIVE AmountTotal(_)
AmountTotal(S) ==
    IF S = {} THEN 0
    ELSE LET t == CHOOSE x \in S : TRUE
         IN  t.amount + AmountTotal(S \ {t})

RECURSIVE ClosedVolume(_)
ClosedVolume(log) ==
    IF log = <<>> THEN 0 ELSE Head(log).bar.volume + ClosedVolume(Tail(log))

\* C20 as stated: while a bar is open, its cvd_cum + cvd_delta is the
\* signed sum of the trades processed since the aggregator was last empty,
\* and the volumes of the bars closed since then plus the open bar's
\* volume add up to the sum of those trades' amounts.
C20_AsStated ==
    current_bar # None =>
        /\ Val(current_bar).cvd_cum + Val(current_bar).cvd_delta
              = SignedTotal(ProcessedTrades)
        /\ ClosedVolume(closed_log) + Val(current_bar).volume
              = AmountTotal(ProcessedTrades)

=============================================================================
